---- MODULE Spec2Model ----
(***************************************************************************)
(* The interest profile store, the relevance score and the content         *)
(* personalizer of src/lib/user-interests.ts.                              *)
(*                                                                         *)
(* Strings are sequences of one-character strings, so that toLowerCase     *)
(* and trim are computed character by character.  Dates are whole days:   *)
(* toISOString followed by new Date(...) returns the instant it was given, *)
(* so a stored date is the day number on which it was written.  A call of  *)
(* an exported function runs at one instant of the clock.                  *)
(***************************************************************************)
EXTENDS Integers, Sequences, FiniteSets, TLC

VARIABLES
  localStorage,     \* the slot of INTEREST_STORAGE_KEY: <<>> or <<value>>
  now,              \* the clock, in whole days
  op, args, ret,    \* the call made last, its arguments and its result
  tabs,             \* per browser tab, the track call it is in the middle of
  personalization,  \* the personalization_* keys of localStorage
  asked,            \* what the visitor answered to the banner, and when
  subscribers,      \* the emails of the CMS's newsletter_subscriber entries
  userUid,          \* the userUid field of PersonalizationAPI: <<>> or <<uid>>
  pathfora,         \* the PathforaFallback instance and what it put on the page
  interactions      \* the slot of user_interactions, and every interaction tracked

\* the state of the services around the interest profile
services == <<userUid, pathfora, interactions>>

vars ==
  <<localStorage, now, op, args, ret, tabs, personalization, asked, subscribers,
    services>>

\* what the functions of user-interests.ts running in one tab leave alone
others == <<tabs, personalization, asked, subscribers, services>>

(* ------------------------------ constants ------------------------------ *)

MAX_INTERESTS == 20

INTEREST_DECAY_DAYS == 30

TOP_INTERESTS_LIMIT == 10

DEFAULT_MIN_SCORE == 1

\* dismissUntil.setDate(dismissUntil.getDate() + 7)
MAYBE_LATER_DAYS == 7

\* handleExitIntent: event.clientY <= 10
LEAVE_Y == 10

\* handleMouseMove: event.clientY <= 5 && event.clientY >= 0
EDGE_Y == 5

\* interactions.slice(-100)
KEPT_INTERACTIONS == 100

\* the {2,} of the e-mail pattern
MIN_TLD_LENGTH == 2

(* ------------------------------- bounds -------------------------------- *)

MaxViews == 2

MaxNow == 45

MaxRepeat == 25

NumBulk == 21

MaxBannerNow == 10

MaxExitWidgets == 2

MaxInteractions == 102

MaxVaried == 2

(* ------------------------------- strings ------------------------------- *)

LowerAlphabet ==
  <<"a","b","c","d","e","f","g","h","i","j","k","l","m",
    "n","o","p","q","r","s","t","u","v","w","x","y","z">>

UpperAlphabet ==
  <<"A","B","C","D","E","F","G","H","I","J","K","L","M",
    "N","O","P","Q","R","S","T","U","V","W","X","Y","Z">>

LowerChar(c) ==
  IF \E i \in 1..26 : UpperAlphabet[i] = c
  THEN LowerAlphabet[CHOOSE i \in 1..26 : UpperAlphabet[i] = c]
  ELSE c

toLowerCase(s) == [i \in 1..Len(s) |-> LowerChar(s[i])]

IsWhiteSpace(c) == c = " "

RECURSIVE trimStart(_)
trimStart(s) ==
  IF s # <<>> /\ IsWhiteSpace(Head(s)) THEN trimStart(Tail(s)) ELSE s

RECURSIVE trimEnd(_)
trimEnd(s) ==
  IF s # <<>> /\ IsWhiteSpace(s[Len(s)])
  THEN trimEnd(SubSeq(s, 1, Len(s) - 1))
  ELSE s

TrimsStartOnly(s) == trimStart(s)

trim(s) == trimEnd(trimStart(s))

(* ------------------------------- arrays -------------------------------- *)

Min(a, b) == IF a < b THEN a ELSE b

Max(a, b) == IF a > b THEN a ELSE b

\* Array.prototype.slice(0, end)
slice0(arr, end) ==
  LET e == IF end < 0 THEN Max(Len(arr) + end, 0) ELSE Min(end, Len(arr))
  IN  SubSeq(arr, 1, e)

RECURSIVE InsertBeforeEquals(_, _)
InsertBeforeEquals(sorted, x) ==
  IF sorted = <<>> THEN <<x>>
  ELSE IF Head(sorted).score > x.score
       THEN <<Head(sorted)>> \o InsertBeforeEquals(Tail(sorted), x)
       ELSE <<x>> \o sorted

\* position of x in a sorted-descending array: after every element whose
\* score is at least x.score (Array.prototype.sort is stable)
RECURSIVE InsertDesc(_, _)
InsertDesc(sorted, x) ==
  IF sorted = <<>> THEN <<x>>
  ELSE IF Head(sorted).score >= x.score
       THEN <<Head(sorted)>> \o InsertDesc(Tail(sorted), x)
       ELSE <<x>> \o sorted

RECURSIVE SortAscending(_)
SortAscending(arr) ==
  IF arr = <<>> THEN <<>>
  ELSE LET rest == SortAscending(SubSeq(arr, 1, Len(arr) - 1))
           x    == arr[Len(arr)]
           k    == Cardinality({i \in 1..Len(rest) : rest[i].score <= x.score})
       IN  SubSeq(rest, 1, k) \o <<x>> \o SubSeq(rest, k + 1, Len(rest))

\* arr.sort((a, b) => b.score - a.score)
RECURSIVE SortByScoreDesc(_)
SortByScoreDesc(arr) ==
  IF arr = <<>> THEN <<>>
  ELSE InsertDesc(SortByScoreDesc(SubSeq(arr, 1, Len(arr) - 1)), arr[Len(arr)])

ZeroWhenAbsent(arr, x) ==
  IF \E i \in 1..Len(arr) : arr[i] = x
  THEN (CHOOSE i \in 1..Len(arr) :
          arr[i] = x /\ \A j \in 1..(i - 1) : arr[j] # x) - 1
  ELSE 0

\* Array.prototype.indexOf, 0-based, -1 when absent
indexOf(arr, x) ==
  IF \E i \in 1..Len(arr) : arr[i] = x
  THEN (CHOOSE i \in 1..Len(arr) :
          arr[i] = x /\ \A j \in 1..(i - 1) : arr[j] # x) - 1
  ELSE -1

(* --------------------------- interest profile -------------------------- *)

createEmptyProfile(t) ==
  [interests |-> <<>>, totalBlogViews |-> 0, lastActive |-> t, created |-> t]

KeepsEveryInterest(interest, t) == TRUE

KeepsThirtyDaysOld(interest, t) ==
  interest.lastUpdated >= t - INTEREST_DECAY_DAYS

\* the filter callback of getUserInterestProfile: lastUpdated > cutoffDate
IsKept(interest, t) ==
  interest.lastUpdated > t - INTEREST_DECAY_DAYS

\* a stored string that JSON.parse rejects is the record [raw |-> string]
ParseThrows(value) == "raw" \in DOMAIN value

\* profile.interests.filter throws a TypeError when interests is undefined
FilterThrows(value) == "interests" \notin DOMAIN value

KeepsParsedViews(value, t) ==
  IF "totalBlogViews" \in DOMAIN value
  THEN [createEmptyProfile(t) EXCEPT !.totalBlogViews = value.totalBlogViews]
  ELSE createEmptyProfile(t)

\* the catch block of getUserInterestProfile
Recovered(value, t) == createEmptyProfile(t)

\* ls is the storage slot: <<>> when the key is absent, <<value>> otherwise
getUserInterestProfile(ls, t) ==
  IF ls = <<>> THEN createEmptyProfile(t)
  ELSE IF ParseThrows(ls[1]) \/ FilterThrows(ls[1]) THEN Recovered(ls[1], t)
  ELSE [ls[1] EXCEPT !.interests = SelectSeq(@, LAMBDA i : IsKept(i, t))]

ForgetsViewCount(interest, t) ==
  [interest EXCEPT !.score = @ + 1, !.lastUpdated = t]

\* the update branch of trackInterestFromBlog
UpdateInterest(interest, t) ==
  [interest EXCEPT !.score = @ + 1, !.viewCount = @ + 1, !.lastUpdated = t]

\* the create branch of trackInterestFromBlog
NewInterest(cleanTag, t) ==
  [tag |-> cleanTag, score |-> 1, viewCount |-> 1, lastUpdated |-> t]

AlwaysAppends(interests, tag, t) ==
  LET cleanTag == trim(toLowerCase(tag))
  IN  IF cleanTag = <<>> THEN interests
      ELSE Append(interests, NewInterest(cleanTag, t))

\* one iteration of blogTags.forEach
ProcessTag(interests, tag, t) ==
  LET cleanTag == trim(toLowerCase(tag))
      found    == {i \in 1..Len(interests) : interests[i].tag = cleanTag}
  IN  IF cleanTag = <<>> THEN interests
      ELSE IF found # {}
           THEN LET i == CHOOSE i \in found : \A j \in found : i <= j
                IN  [interests EXCEPT ![i] = UpdateInterest(@, t)]
           ELSE Append(interests, NewInterest(cleanTag, t))

RECURSIVE ProcessTags(_, _, _)
ProcessTags(interests, blogTags, t) ==
  IF blogTags = <<>> THEN interests
  ELSE ProcessTags(ProcessTag(interests, Head(blogTags), t), Tail(blogTags), t)

KeepsOneTooMany(interests) == slice0(interests, MAX_INTERESTS + 1)

\* profile.interests.slice(0, MAX_INTERESTS)
LimitInterests(interests) == slice0(interests, MAX_INTERESTS)

\* the profile trackInterestFromBlog hands to localStorage.setItem
TrackedProfile(ls, blogTags, t) ==
  LET profile == getUserInterestProfile(ls, t)
  IN  [profile EXCEPT
         !.totalBlogViews = @ + 1,
         !.lastActive = t,
         !.interests = LimitInterests(SortByScoreDesc(ProcessTags(@, blogTags, t)))]

\* the storage slot after trackInterestFromBlog(blogTags, blogUid)
trackInterestFromBlog(ls, blogTags, t) ==
  IF Len(blogTags) = 0 THEN ls ELSE <<TrackedProfile(ls, blogTags, t)>>

ClearsOnSaveError(ls) == <<>>

\* the catch block around setItem: the error is logged, nothing else
AfterSaveError(ls) == ls

\* localStorage.setItem either replaces the value or throws
\* QuotaExceededError and leaves the value as it was
trackWithQuota(ls, blogTags, t, quotaExceeded) ==
  IF Len(blogTags) = 0
  THEN [storage |-> ls, raised |-> FALSE, setItemCalls |-> 0]
  ELSE [storage |-> IF quotaExceeded THEN AfterSaveError(ls)
                    ELSE <<TrackedProfile(ls, blogTags, t)>>,
        raised |-> FALSE, setItemCalls |-> 1]

(* ------------------------------- readers ------------------------------- *)

TopInterestsUpdatedNow(ls, limit, t) ==
  LET fresh == SelectSeq(getUserInterestProfile(ls, t).interests,
                         LAMBDA i : i.lastUpdated = t)
      taken == slice0(fresh, limit)
  IN  [i \in 1..Len(taken) |-> taken[i].tag]

getUserTopInterests(ls, limit, t) ==
  LET taken == slice0(getUserInterestProfile(ls, t).interests, limit)
  IN  [i \in 1..Len(taken) |-> taken[i].tag]

getInterestScore(ls, tag, t) ==
  LET interests == getUserInterestProfile(ls, t).interests
      found     == {i \in 1..Len(interests) : interests[i].tag = toLowerCase(tag)}
  IN  IF found # {}
      THEN interests[CHOOSE i \in found : \A j \in found : i <= j].score
      ELSE 0

hasUserInterests(ls, t) == Len(getUserInterestProfile(ls, t).interests) > 0

(* --------------------------- relevance score --------------------------- *)

WeightOffByOne(userInterests, interestIndex) ==
  Len(userInterests) - interestIndex - 1

\* userInterests.length - interestIndex
Weight(userInterests, interestIndex) == Len(userInterests) - interestIndex

RECURSIVE SumWeights(_, _)
SumWeights(userInterests, blogTags) ==
  IF blogTags = <<>> THEN 0
  ELSE LET interestIndex == indexOf(userInterests, toLowerCase(Head(blogTags)))
       IN  (IF interestIndex # -1 THEN Weight(userInterests, interestIndex) ELSE 0)
           + SumWeights(userInterests, Tail(blogTags))

calculateBlogRelevanceScore(ls, blogTags, t) ==
  LET userInterests == getUserTopInterests(ls, TOP_INTERESTS_LIMIT, t)
  IN  IF Len(blogTags) = 0 THEN 0
      ELSE IF Len(userInterests) = 0 THEN 0
      ELSE SumWeights(userInterests, blogTags)

(* ------------------------- content personalizer ------------------------ *)

\* an optional value is <<>> when undefined and <<v>> when given
OrElse(optional, default) == IF optional = <<>> THEN default ELSE optional[1]

\* the truthiness test of "maxResults ? ... : ..."
IsTruthy(maxResults) == maxResults # <<>> /\ maxResults[1] # 0

\* content.map(item => ({item, score: calculateBlogRelevanceScore(...)}))
ScoreContent(ls, content, t) ==
  [i \in 1..Len(content) |->
     [item  |-> content[i],
      score |-> calculateBlogRelevanceScore(
                  ls, OrElse(content[i].categories_tags, <<>>), t)]]

FilterAboveMinScore(scoredContent, minScore) ==
  SelectSeq(scoredContent, LAMBDA s : s.score > minScore)

\* scoredContent.filter(({score}) => score >= minScore)
FilterByMinScore(scoredContent, minScore) ==
  SelectSeq(scoredContent, LAMBDA s : s.score >= minScore)

SortContentAscending(filteredContent) == SortAscending(filteredContent)

\* filteredContent.sort((a, b) => b.score - a.score)
SortContent(filteredContent) == SortByScoreDesc(filteredContent)

FallbackSorted(scoredContent) == SortByScoreDesc(scoredContent)

\* filteredContent = scoredContent, taken when nothing passed the filter
Fallback(scoredContent) == scoredContent

\* the array named result, before the final slice
RankContent(ls, content, options, t) ==
  LET minScore        == OrElse(options.minScore, DEFAULT_MIN_SCORE)
      scoredContent   == ScoreContent(ls, content, t)
      filteredContent ==
        SortContent(IF options.requireMatch
                    THEN FilterByMinScore(scoredContent, minScore)
                    ELSE scoredContent)
      chosen          ==
        IF Len(filteredContent) = 0 /\ options.requireMatch
        THEN Fallback(scoredContent)
        ELSE filteredContent
  IN  [i \in 1..Len(chosen) |-> chosen[i].item]

personalizeContentByInterests(ls, content, options, t) ==
  LET result == IF ~hasUserInterests(ls, t) THEN content
                ELSE RankContent(ls, content, options, t)
  IN  IF IsTruthy(options.maxResults)
      THEN slice0(result, options.maxResults[1])
      ELSE result

(* -------------------------------- inputs ------------------------------- *)

go == <<"g", "o">>

Go == <<"G", "o">>

goPadded == <<" ", "g", "o", " ">>

blank == <<" ">>

react == <<"r", "e", "a", "c", "t">>

React == <<"R", "e", "a", "c", "t">>

css == <<"c", "s", "s">>

javascript == <<"j", "a", "v", "a", "s", "c", "r", "i", "p", "t">>

\* NumBulk distinct one-letter tags
BulkTags == [i \in 1..NumBulk |-> <<LowerAlphabet[i]>>]

\* javascript five times and react three times in one article
ExampleTags ==
  <<javascript, javascript, javascript, javascript, javascript,
    react, react, react>>

TagArrays ==
  { <<>>, <<Go, goPadded, blank>>, <<react, go>>, ExampleTags, BulkTags }

CandidateArrays == { <<>>, <<react, css>>, <<React, go, go>>, BulkTags }

TickDays == {15, 30}

Limits == {5, TOP_INTERESTS_LIMIT}

\* an article without categories_tags
untagged == [uid |-> "b1", categories_tags |-> <<>>]

frontend == [uid |-> "b2", categories_tags |-> << <<React, css>> >>]

backend == [uid |-> "b3", categories_tags |-> << <<go, react>> >>]

Contents == { <<untagged, frontend, backend>> }

Options ==
  [requireMatch : BOOLEAN, minScore : {<<>>, <<4>>}, maxResults : {<<>>, <<0>>, <<1>>}]

(* ------------------------------- actions ------------------------------- *)

Tabs == {"A", "B"}

\* a tab that is not inside trackInterestFromBlog
IdleTab == [pc |-> "idle", blogTags |-> <<>>, stored |-> <<>>, readAt |-> 0]

\* localStorage.getItem gives null for each of the personalization_* keys
NoPersonalization ==
  [email |-> <<>>, consent |-> <<>>, timestamp |-> <<>>, dismissed |-> <<>>,
   maybeLater |-> <<>>, dismissedTimestamp |-> <<>>]

\* new PathforaFallback() on a page that has just loaded
NewPathforaFallback ==
  [initialized |-> FALSE, setupTimer |-> FALSE, listeners |-> {},
   simpleWidget |-> FALSE, exitWidget |-> <<>>, autoDismissTimers |-> 0,
   removeTimers |-> {}, exitDismissed |-> FALSE, created |-> 0]

\* localStorage.getItem('user_interactions') gives null, nothing was tracked
NoInteractions == [stored |-> <<>>, sessionId |-> <<>>, tracked |-> <<>>]

\* the visitor has not answered the banner
NotAsked == [dismissed |-> FALSE, maybeLaterAt |-> <<>>]

Init ==
  /\ localStorage = <<>>
  /\ now = 0
  /\ op = "init"
  /\ args = <<>>
  /\ ret = <<>>
  /\ tabs = [tab \in Tabs |-> IdleTab]
  /\ personalization = NoPersonalization
  /\ asked = NotAsked
  /\ subscribers = {}
  /\ userUid = <<>>
  /\ pathfora = NewPathforaFallback
  /\ interactions = NoInteractions

\* the clock of the browser moves on between calls
Tick ==
  \E d \in TickDays :
    /\ now + d <= MaxNow
    /\ now' = now + d
    /\ op' = "tick"
    /\ args' = <<>>
    /\ ret' = <<>>
    /\ UNCHANGED <<localStorage, others>>

Track ==
  \E blogTags \in TagArrays :
    /\ getUserInterestProfile(localStorage, now).totalBlogViews < MaxViews
    /\ localStorage' = trackInterestFromBlog(localStorage, blogTags, now)
    /\ op' = "trackInterestFromBlog"
    /\ args' = [blogTags |-> blogTags]
    /\ ret' = <<>>
    /\ UNCHANGED <<now, others>>

\* localStorage.removeItem(INTEREST_STORAGE_KEY)
clearUserInterests ==
  /\ localStorage' = <<>>
  /\ op' = "clearUserInterests"
  /\ args' = <<>>
  /\ ret' = <<>>
  /\ UNCHANGED <<now, others>>

PersistsCleanup(ls, t) ==
  IF ls = <<>> THEN ls ELSE <<getUserInterestProfile(ls, t)>>

\* getUserInterestProfile only calls localStorage.getItem
StorageAfterRead(ls, t) == ls

ReadProfile ==
  /\ op' = "getUserInterestProfile"
  /\ args' = <<>>
  /\ ret' = getUserInterestProfile(localStorage, now)
  /\ localStorage' = StorageAfterRead(localStorage, now)
  /\ UNCHANGED <<now, others>>

TopInterests ==
  \E limit \in Limits :
    /\ op' = "getUserTopInterests"
    /\ args' = [limit |-> limit]
    /\ ret' = getUserTopInterests(localStorage, limit, now)
    /\ localStorage' = StorageAfterRead(localStorage, now)
    /\ UNCHANGED <<now, others>>

InterestScore ==
  \E tag \in {Go, css} :
    /\ op' = "getInterestScore"
    /\ args' = [tag |-> tag]
    /\ ret' = getInterestScore(localStorage, tag, now)
    /\ localStorage' = StorageAfterRead(localStorage, now)
    /\ UNCHANGED <<now, others>>

HasInterests ==
  /\ op' = "hasUserInterests"
  /\ args' = <<>>
  /\ ret' = hasUserInterests(localStorage, now)
  /\ localStorage' = StorageAfterRead(localStorage, now)
  /\ UNCHANGED <<now, others>>

RelevanceScore ==
  \E blogTags \in CandidateArrays :
    /\ op' = "calculateBlogRelevanceScore"
    /\ args' = [blogTags |-> blogTags]
    /\ ret' = calculateBlogRelevanceScore(localStorage, blogTags, now)
    /\ localStorage' = StorageAfterRead(localStorage, now)
    /\ UNCHANGED <<now, others>>

Personalize ==
  \E content \in Contents, options \in Options :
    /\ op' = "personalizeContentByInterests"
    /\ args' = [content |-> content, options |-> options]
    /\ ret' = personalizeContentByInterests(localStorage, content, options, now)
    /\ localStorage' = StorageAfterRead(localStorage, now)
    /\ UNCHANGED <<now, others>>

Next ==
  \/ Tick
  \/ Track
  \/ clearUserInterests
  \/ ReadProfile
  \/ TopInterests
  \/ InterestScore
  \/ HasInterests
  \/ RelevanceScore
  \/ Personalize

Spec == Init /\ [][Next]_vars

(* --------------------------- articles viewed only ----------------------- *)

NextTrack ==
  \/ Tick
  \/ Track

SpecTrack == Init /\ [][NextTrack]_vars

(* ------------------------ articles viewed on a full profile ------------- *)

MoreTagArrays ==
  { BulkTags, <<css>>, <<css, react, react>>, <<BulkTags[1], Go, goPadded>> }

TrackMore ==
  \E blogTags \in MoreTagArrays :
    /\ getUserInterestProfile(localStorage, now).totalBlogViews < MaxViews
    /\ localStorage' = trackInterestFromBlog(localStorage, blogTags, now)
    /\ op' = "trackInterestFromBlog"
    /\ args' = [blogTags |-> blogTags]
    /\ ret' = <<>>
    /\ UNCHANGED <<now, others>>

NextMore ==
  \/ Tick
  \/ TrackMore

SpecMore == Init /\ [][NextMore]_vars

(* ------------------ the same article tag, viewed again ------------------ *)

RepeatTags == {go, Go, goPadded, blank}

\* the clock moves on; nothing is called
Pass ==
  \E d \in TickDays :
    /\ now + d <= MaxNow
    /\ now' = now + d
    /\ UNCHANGED <<localStorage, op, args, ret, others>>

\* trackInterestFromBlog([t], blogUid), with the t of the calls before it
TrackSame ==
  \E t \in RepeatTags :
    /\ IF op = "init" THEN TRUE ELSE args.blogTags = <<t>>
    /\ getUserInterestProfile(localStorage, now).totalBlogViews < MaxRepeat
    /\ localStorage' = trackInterestFromBlog(localStorage, <<t>>, now)
    /\ op' = "trackInterestFromBlog"
    /\ args' = [blogTags |-> <<t>>]
    /\ ret' = <<>>
    /\ UNCHANGED <<now, others>>

NextRepeat ==
  \/ Pass
  \/ TrackSame

SpecRepeat == Init /\ [][NextRepeat]_vars

(* ------------------- an article viewed, then scored --------------------- *)

\* an article with one tag is viewed
TrackOne ==
  \E t \in RepeatTags :
    /\ getUserInterestProfile(localStorage, now).totalBlogViews < MaxViews
    /\ localStorage' = trackInterestFromBlog(localStorage, <<t>>, now)
    /\ op' = "trackInterestFromBlog"
    /\ args' = [blogTags |-> <<t>>]
    /\ ret' = <<>>
    /\ UNCHANGED <<now, others>>

\* the article that was just viewed is scored
ScoreSame ==
  /\ op = "trackInterestFromBlog"
  /\ op' = "calculateBlogRelevanceScore"
  /\ args' = [blogTags |-> args.blogTags]
  /\ ret' = calculateBlogRelevanceScore(localStorage, args.blogTags, now)
  /\ localStorage' = StorageAfterRead(localStorage, now)
  /\ UNCHANGED <<now, others>>

NextSame ==
  \/ Tick
  \/ Track
  \/ TrackOne
  \/ ScoreSame

SpecSame == Init /\ [][NextSame]_vars

(* ------------------- the same article, scored again -------------------- *)

\* calculateBlogRelevanceScore(blogTags), the day of the call noted
ScoreAgain ==
  \E blogTags \in CandidateArrays :
    /\ op' = "calculateBlogRelevanceScore"
    /\ args' = [blogTags |-> blogTags, at |-> now]
    /\ ret' = calculateBlogRelevanceScore(localStorage, blogTags, now)
    /\ localStorage' = StorageAfterRead(localStorage, now)
    /\ UNCHANGED <<now, others>>

NextScore ==
  \/ Pass
  \/ Track
  \/ ScoreAgain

SpecScore == Init /\ [][NextScore]_vars

(* -------------------- storage that does not cooperate ------------------- *)

\* a value JSON.parse rejects
Unparseable == [raw |-> "{interests:"]

\* a value that parses to an object without an interests array
NoInterestsList == [totalBlogViews |-> 3, lastActive |-> 0, created |-> 0]

\* something else than trackInterestFromBlog wrote the key
Corrupt ==
  \E value \in {Unparseable, NoInterestsList} :
    /\ localStorage' = <<value>>
    /\ op' = "corrupt"
    /\ args' = <<>>
    /\ ret' = <<>>
    /\ UNCHANGED <<now, others>>

\* trackInterestFromBlog, the storage quota being exceeded or not
TrackQuota ==
  \E blogTags \in TagArrays, quotaExceeded \in BOOLEAN :
    LET done == trackWithQuota(localStorage, blogTags, now, quotaExceeded)
    IN  /\ getUserInterestProfile(localStorage, now).totalBlogViews < MaxViews
        /\ localStorage' = done.storage
        /\ op' = "trackInterestFromBlog"
        /\ args' = [blogTags |-> blogTags, quotaExceeded |-> quotaExceeded,
                    before |-> localStorage]
        /\ ret' = [raised |-> done.raised, setItemCalls |-> done.setItemCalls]
        /\ UNCHANGED <<now, others>>

NextFaulty ==
  \/ Tick
  \/ Corrupt
  \/ TrackQuota
  \/ ReadProfile

SpecFaulty == Init /\ [][NextFaulty]_vars

(* ------------------------- newsletter subscription ---------------------- *)

Letters == {LowerAlphabet[i] : i \in 1..26} \cup {UpperAlphabet[i] : i \in 1..26}

DigitChars == {"0","1","2","3","4","5","6","7","8","9"}

\* [a-zA-Z0-9._%+-]
LocalChars == Letters \cup DigitChars \cup {".", "_", "%", "+", "-"}

\* [a-zA-Z0-9.-]
DomainChars == Letters \cup DigitChars \cup {".", "-"}

AllIn(s, from, to, chars) == \A k \in from..to : s[k] \in chars

\* /^[a-zA-Z0-9._%+-]+@[a-zA-Z0-9.-]+\.[a-zA-Z]{2,}$/.test(s)
MatchesEmailPattern(s) ==
  \E at \in 2..Len(s), dot \in 1..Len(s) :
    /\ s[at] = "@"
    /\ AllIn(s, 1, at - 1, LocalChars)
    /\ dot > at + 1
    /\ s[dot] = "."
    /\ AllIn(s, at + 1, dot - 1, DomainChars)
    /\ Len(s) - dot >= MIN_TLD_LENGTH
    /\ AllIn(s, dot + 1, Len(s), Letters)

RECURSIVE JoinWithComma(_)
JoinWithComma(items) ==
  IF Len(items) = 0 THEN <<>>
  ELSE IF Len(items) = 1 THEN items[1]
  ELSE items[1] \o <<",">> \o JoinWithComma(Tail(items))

\* the string RegExp.prototype.test makes of its argument
StringOf(value) ==
  IF value.type = "string" THEN value.chars ELSE JoinWithComma(value.items)

\* !email: undefined, null and the empty string are falsy, an array is not
IsFalsyEmail(email) ==
  \/ email = <<>>
  \/ email[1].type = "null"
  \/ (email[1].type = "string" /\ email[1].chars = <<>>)

\* the entries of newsletter_subscriber whose email field equals the value
FindEntries(cms, value) ==
  IF value.type = "string" THEN {e \in cms : e = value.chars} ELSE {}

Response(status, text, steps) ==
  [status |-> status, text |-> text, steps |-> steps]

\* body: what request.json() gives; cmsThrows: whether find() rejects
POST(body, cms, cmsThrows) ==
  IF body.kind # "object"
  THEN Response(500, "Failed to subscribe. Please try again.", <<>>)
  ELSE IF IsFalsyEmail(body.email)
          \/ ~MatchesEmailPattern(StringOf(body.email[1]))
  THEN Response(400, "Valid email is required", <<"validate">>)
  ELSE IF cmsThrows
  THEN Response(500, "Failed to subscribe. Please try again.",
                <<"validate", "query">>)
  ELSE IF Cardinality(FindEntries(cms, body.email[1])) > 0
  THEN Response(200, "Email already subscribed", <<"validate", "query">>)
  ELSE Response(201, "Successfully subscribed to newsletter!",
                <<"validate", "query", "log">>)

Str(chars) == [type |-> "string", chars |-> chars]

anna == <<"a", "@", "b", ".", "c", "o">>
Bob == <<"B", "_", "1", "@", "x", "-", "y", ".", "i", "o">>
cat == <<"c", "+", "d", "@", "m", ".", "n", ".", "o", "r", "g">>
shortTld == <<"a", "@", "b", ".", "c">>
noAt == <<"a", "b", ".", "c", "o">>
noLocal == <<"@", "b", ".", "c", "o">>
spaced == <<"a", " ", "@", "b", ".", "c", "o">>

StoredEmails == {anna, Bob, cat}

Bodies ==
  {[kind |-> "notJson"], [kind |-> "null"]}
  \cup {[kind |-> "object", email |-> e] :
          e \in {<<>>, <<[type |-> "null"]>>, <<Str(<<>>)>>}
                \cup {<<Str(c)>> : c \in StoredEmails
                        \cup {shortTld, noAt, noLocal, spaced}}
                \cup {<<[type |-> "array", items |-> i]>> :
                        i \in {<<>>, <<anna>>, <<anna, Bob>>}}}

\* an entry of newsletter_subscriber gets published in the CMS
PublishSubscriber ==
  \E e \in StoredEmails :
    /\ e \notin subscribers
    /\ subscribers' = subscribers \cup {e}
    /\ op' = "publish"
    /\ args' = <<>>
    /\ ret' = <<>>
    /\ UNCHANGED <<services, localStorage, now, tabs, personalization, asked>>

Subscribe ==
  \E body \in Bodies, cmsThrows \in BOOLEAN :
    /\ op' = "POST"
    /\ args' = [body |-> body, cmsThrows |-> cmsThrows]
    /\ ret' = POST(body, subscribers, cmsThrows)
    /\ UNCHANGED <<services, localStorage, now, tabs, personalization, asked,
                   subscribers>>

NextNewsletter ==
  \/ PublishSubscriber
  \/ Subscribe

SpecNewsletter == Init /\ [][NextNewsletter]_vars

(* -------------------------- personalization banner --------------------- *)

StillLaterOnTheDay(until, t) == until >= t

\* new Date(maybeLaterDate) > new Date()
IsStillLater(until, t) == until > t

\* p holds the personalization_* keys of localStorage, t is new Date()
getPersonalizationData(p, t) ==
  [email |-> IF p.email # <<>> /\ Len(p.email[1]) > 0 THEN p.email ELSE <<>>,
   hasConsent |-> p.consent = <<"true">>,
   isDismissed |-> p.dismissed = <<"true">>,
   isMaybeLater |-> IF p.maybeLater # <<>>
                    THEN IsStillLater(p.maybeLater[1], t) ELSE FALSE,
   timestamp |-> p.timestamp]

setPersonalizationEmail(p, email, t) ==
  [p EXCEPT !.email = <<email>>, !.consent = <<"true">>,
            !.timestamp = <<t>>, !.dismissed = <<>>, !.maybeLater = <<>>]

clearPersonalizationData(p) == NoPersonalization

dismissPersonalizationBanner(p, t) ==
  [p EXCEPT !.dismissed = <<"true">>, !.dismissedTimestamp = <<t>>,
            !.maybeLater = <<>>]

setPersonalizationMaybeLater(p, t) ==
  [p EXCEPT !.maybeLater = <<t + MAYBE_LATER_DAYS>>]

\* the banner's Maybe Later button
handleMaybeLater(p, t) ==
  [p EXCEPT !.maybeLater = <<t + MAYBE_LATER_DAYS>>]

shouldShowPersonalizationBanner(p, t) ==
  LET data == getPersonalizationData(p, t)
  IN  IF data.email # <<>> /\ data.hasConsent THEN FALSE
      ELSE IF data.isDismissed THEN FALSE
      ELSE IF data.isMaybeLater THEN FALSE
      ELSE TRUE

BannerWaits == {3, 4}

Emails == {<<>>, anna}

Wait ==
  \E d \in BannerWaits :
    /\ now + d <= MaxBannerNow
    /\ now' = now + d
    /\ UNCHANGED <<services, localStorage, op, args, ret, tabs, personalization, asked,
                   subscribers>>

SetEmail ==
  \E email \in Emails :
    /\ personalization' = setPersonalizationEmail(personalization, email, now)
    /\ op' = "setPersonalizationEmail"
    /\ args' = [email |-> email]
    /\ ret' = <<>>
    /\ UNCHANGED <<services, localStorage, now, tabs, asked, subscribers>>

ClearData ==
  /\ personalization' = clearPersonalizationData(personalization)
  /\ asked' = NotAsked
  /\ op' = "clearPersonalizationData"
  /\ args' = <<>>
  /\ ret' = <<>>
  /\ UNCHANGED <<services, localStorage, now, tabs, subscribers>>

Dismiss ==
  /\ personalization' = dismissPersonalizationBanner(personalization, now)
  /\ asked' = [asked EXCEPT !.dismissed = TRUE]
  /\ op' = "dismissPersonalizationBanner"
  /\ args' = <<>>
  /\ ret' = <<>>
  /\ UNCHANGED <<services, localStorage, now, tabs, subscribers>>

MaybeLater ==
  \E by \in {"setPersonalizationMaybeLater", "handleMaybeLater"} :
    /\ personalization' =
         IF by = "handleMaybeLater"
         THEN handleMaybeLater(personalization, now)
         ELSE setPersonalizationMaybeLater(personalization, now)
    /\ asked' = [asked EXCEPT !.maybeLaterAt = <<now>>]
    /\ op' = by
    /\ args' = <<>>
    /\ ret' = <<>>
    /\ UNCHANGED <<services, localStorage, now, tabs, subscribers>>

ShouldShow ==
  /\ op' = "shouldShowPersonalizationBanner"
  /\ args' = [at |-> now]
  /\ ret' = shouldShowPersonalizationBanner(personalization, now)
  /\ UNCHANGED <<services, localStorage, now, tabs, personalization, asked,
                 subscribers>>

NextBanner ==
  \/ Wait
  \/ SetEmail
  \/ ClearData
  \/ Dismiss
  \/ MaybeLater
  \/ ShouldShow

SpecBanner == Init /\ [][NextBanner]_vars

(* ----------------------- hybrid personalization manager ----------------- *)

StopsOnFailure(outcome) == outcome \notin {"rejects", "throws"}

\* the try/catch around each remote tracking call: the error is logged
ContinuesAfter(outcome) == TRUE

\* the only key of the two that anything writes is INTEREST_STORAGE_KEY
getItem(ls, key) == IF key = "user_interests_profile" THEN ls ELSE <<>>

\* contentstack: what contentstackAPI.trackBlogView does, "absent" when the
\* manager has no contentstackAPI; lytics: the same for trackBlogEngagement
hybridTrackBlogView(ls, tags, t, contentstack, lytics) ==
  LET first  == IF contentstack = "absent" THEN <<>> ELSE <<"contentstack">>
      second == IF lytics = "absent" THEN first ELSE Append(first, "lytics")
  IN  IF ~ContinuesAfter(contentstack)
      THEN [storage |-> ls, steps |-> first, raised |-> TRUE, trackCalls |-> 0]
      ELSE IF ~ContinuesAfter(lytics)
      THEN [storage |-> ls, steps |-> second, raised |-> TRUE, trackCalls |-> 0]
      ELSE IF Len(tags) > 0
      THEN [storage |-> trackInterestFromBlog(ls, tags, t),
            steps |-> Append(second, "local"), raised |-> FALSE,
            trackCalls |-> 1]
      ELSE [storage |-> ls, steps |-> second, raised |-> FALSE,
            trackCalls |-> 0]

getTotalBlogViews(ls) ==
  LET stored == getItem(ls, "user_interest_profile")
  IN  IF stored = <<>> THEN 0
      ELSE IF ParseThrows(stored[1]) THEN 0
      ELSE IF "totalBlogViews" \in DOMAIN stored[1]
      THEN stored[1].totalBlogViews ELSE 0

ContentstackOutcomes == {"absent", "resolves", "rejects"}

LyticsOutcomes == {"absent", "returns", "throws"}

ViewTagArrays == { <<>>, <<react, go>>, <<Go, goPadded, blank>> }

HybridView ==
  \E tags \in ViewTagArrays, contentstack \in ContentstackOutcomes,
     lytics \in LyticsOutcomes :
    LET done == hybridTrackBlogView(localStorage, tags, now, contentstack, lytics)
    IN  /\ getUserInterestProfile(localStorage, now).totalBlogViews < MaxViews
        /\ localStorage' = done.storage
        /\ op' = "HybridPersonalizationManager.trackBlogView"
        /\ args' = [tags |-> tags, contentstack |-> contentstack,
                    lytics |-> lytics, before |-> localStorage, at |-> now]
        /\ ret' = [steps |-> done.steps, raised |-> done.raised,
                   trackCalls |-> done.trackCalls]
        /\ UNCHANGED <<now, others>>

TotalBlogViews ==
  /\ op' = "getTotalBlogViews"
  /\ args' = <<>>
  /\ ret' = getTotalBlogViews(localStorage)
  /\ UNCHANGED <<localStorage, now, others>>

NextHybrid ==
  \/ Tick
  \/ HybridView
  \/ TotalBlogViews

SpecHybrid == Init /\ [][NextHybrid]_vars

(* ---------------------------- personalization API ---------------------- *)

\* uid is the userUid field, fetched is what the PATCH request came to
setUserAttributes(uid, fetched) ==
  IF uid = <<>> THEN FALSE
  ELSE IF fetched = "ok" THEN TRUE
  ELSE FALSE

\* fetched is what the POST to the tracking route came to; every failure is
\* turned into the value false inside trackEvent, which never throws
trackEvent(uid, fetched) ==
  [threw |-> FALSE,
   value |-> IF uid = <<>> THEN FALSE
             ELSE IF fetched = "notOk" THEN FALSE
             ELSE IF fetched \in {"networkError", "okBadJson"} THEN FALSE
             ELSE TRUE]

trackBlogView(uid, tags, attributesFetched, eventFetched) ==
  LET attributesSet == IF Len(tags) > 0
                       THEN setUserAttributes(uid, attributesFetched)
                       ELSE FALSE
      success == trackEvent(uid, eventFetched)
  IN  [attributesSet |-> attributesSet,
       result |-> IF success.threw THEN TRUE ELSE success.value]

UserUids == {<<"u", "1">>, <<"u", "2">>}

AttributeFetches == {"ok", "notOk", "networkError"}

EventFetches == {"ok", "okBadJson", "notOk", "networkError"}

SetUserUid ==
  \E uid \in UserUids :
    /\ userUid' = <<uid>>
    /\ op' = "setUserUid"
    /\ args' = [userUid |-> uid]
    /\ ret' = <<>>
    /\ UNCHANGED <<localStorage, now, tabs, personalization, asked,
                   subscribers, pathfora, interactions>>

ApiView ==
  \E tags \in ViewTagArrays, attributesFetched \in AttributeFetches,
     eventFetched \in EventFetches :
    /\ op' = "PersonalizationAPI.trackBlogView"
    /\ args' = [tags |-> tags, attributes |-> attributesFetched,
                event |-> eventFetched, userUid |-> userUid]
    /\ ret' = trackBlogView(userUid, tags, attributesFetched, eventFetched)
    /\ UNCHANGED <<localStorage, now, tabs, personalization, asked,
                   subscribers, userUid, pathfora, interactions>>

NextApi ==
  \/ SetUserUid
  \/ ApiView

SpecApi == Init /\ [][NextApi]_vars

(* ----------------------------- Pathfora fallback ------------------------ *)

\* this.handler.bind(this) makes a new function each time it is evaluated;
\* this.handler is the method itself
BoundHandler(handler) == [handler |-> handler, bound |-> TRUE]

MethodItself(handler) == [handler |-> handler, bound |-> FALSE]

ExitIntentTypes ==
  { [type |-> "mouseleave", handler |-> "handleExitIntent"],
    [type |-> "mousemove", handler |-> "handleMouseMove"],
    [type |-> "keydown", handler |-> "handleKeyboardShortcut"] }

setupExitIntentDetection(listeners) ==
  listeners \cup {[type |-> e.type, fn |-> BoundHandler(e.handler)] :
                    e \in ExitIntentTypes}

\* removeEventListener removes the listener that is the function given
removeExitIntentListeners(listeners) ==
  listeners \ {[type |-> e.type, fn |-> MethodItself(e.handler)] :
                 e \in ExitIntentTypes}

createExitIntentWidget(p) ==
  IF p.exitWidget # <<>> \/ p.exitDismissed THEN p
  ELSE [p EXCEPT !.exitWidget = <<p.created + 1>>,
                 !.autoDismissTimers = @ + 1,
                 !.created = @ + 1]

\* dismissWidget('exit-intent-widget'): the element found fades and a timer
\* will remove it
dismissWidget(p) ==
  IF p.exitWidget # <<>>
  THEN [p EXCEPT !.removeTimers = @ \cup {p.exitWidget[1]}]
  ELSE p

IsExitIntent(type, event) ==
  IF type = "mouseleave" THEN event.clientY <= LEAVE_Y \/ event.clientY < 0
  ELSE IF type = "mousemove" THEN event.clientY <= EDGE_Y /\ event.clientY >= 0
  ELSE (event.ctrlKey \/ event.metaKey) /\ event.key = "w"

\* one of the three handlers, called with the event
handle(p, type, event) ==
  IF IsExitIntent(type, event)
  THEN LET shown == createExitIntentWidget(p)
       IN  [shown EXCEPT !.listeners = removeExitIntentListeners(@)]
  ELSE p

\* the page dispatches the event to the listeners registered for its type
Dispatch(p, type, event) ==
  IF \E l \in p.listeners : l.type = type THEN handle(p, type, event) ELSE p

Events ==
  {[type |-> "mouseleave", event |-> [clientY |-> y]] : y \in {-1, 8, 200}}
  \cup {[type |-> "mousemove", event |-> [clientY |-> y]] : y \in {3, 8}}
  \cup {[type |-> "keydown",
         event |-> [ctrlKey |-> c, metaKey |-> FALSE, key |-> k]] :
          c \in BOOLEAN, k \in {"w", "a"}}

PathforaLeaves ==
  <<localStorage, now, tabs, personalization, asked, subscribers, userUid,
    interactions>>

Initialize ==
  /\ pathfora' = IF pathfora.initialized THEN pathfora
                 ELSE [pathfora EXCEPT !.initialized = TRUE,
                                       !.setupTimer = TRUE]
  /\ op' = "initialize"
  /\ args' = <<>>
  /\ ret' = <<>>
  /\ UNCHANGED PathforaLeaves

\* the timer of initialize fires
SetupFallbackWidgets ==
  /\ pathfora.setupTimer
  /\ pathfora' =
       [pathfora EXCEPT
          !.setupTimer = FALSE,
          !.simpleWidget = @ \/ Len(getUserTopInterests(localStorage, 1, now)) > 0,
          !.listeners = setupExitIntentDetection(@)]
  /\ op' = "setupFallbackWidgets"
  /\ args' = <<>>
  /\ ret' = <<>>
  /\ UNCHANGED PathforaLeaves

PageEvent ==
  \E e \in Events :
    /\ pathfora.created < MaxExitWidgets
    /\ pathfora' = Dispatch(pathfora, e.type, e.event)
    /\ op' = e.type
    /\ args' = e.event
    /\ ret' = <<>>
    /\ UNCHANGED PathforaLeaves

\* the visitor clicks No Thanks on the exit-intent widget
ClickExitDismiss ==
  /\ pathfora.exitWidget # <<>>
  /\ pathfora' = dismissWidget([pathfora EXCEPT !.exitDismissed = TRUE])
  /\ op' = "click exit-dismiss"
  /\ args' = <<>>
  /\ ret' = <<>>
  /\ UNCHANGED PathforaLeaves

\* a timer of createExitIntentWidget fires
AutoDismiss ==
  /\ pathfora.autoDismissTimers > 0
  /\ pathfora' = dismissWidget([pathfora EXCEPT !.autoDismissTimers = @ - 1])
  /\ op' = "auto-dismiss"
  /\ args' = <<>>
  /\ ret' = <<>>
  /\ UNCHANGED PathforaLeaves

\* a timer of dismissWidget fires: widget.remove()
RemoveWidget ==
  \E widget \in pathfora.removeTimers :
    /\ pathfora' =
         [pathfora EXCEPT
            !.removeTimers = @ \ {widget},
            !.exitWidget = IF @ = <<widget>> THEN <<>> ELSE @]
    /\ op' = "remove"
    /\ args' = [widget |-> widget]
    /\ ret' = <<>>
    /\ UNCHANGED PathforaLeaves

NextPathfora ==
  \/ Initialize
  \/ SetupFallbackWidgets
  \/ PageEvent
  \/ ClickExitDismiss
  \/ AutoDismiss
  \/ RemoveWidget

SpecPathfora == Init /\ [][NextPathfora]_vars

(* ------------------------------- interactions -------------------------- *)

KeepsFirst(array, n) == slice0(array, n)

\* array.slice(-n)
sliceLast(array, n) ==
  IF Len(array) <= n THEN array
  ELSE SubSeq(array, Len(array) - n + 1, Len(array))

\* sessionStorage keeps the session id that the first call makes up
getSessionId(sessionId) == IF sessionId = <<>> THEN "session_1" ELSE sessionId[1]

Interaction(type, data, timestamp, sessionId) ==
  [type |-> type, data |-> data, timestamp |-> timestamp,
   sessionId |-> getSessionId(sessionId)]

\* the value of user_interactions after trackInteraction(type, data)
trackInteraction(stored, type, data, timestamp, sessionId) ==
  LET parsed == IF stored = <<>> THEN <<>> ELSE stored[1]
      pushed == Append(parsed, Interaction(type, data, timestamp, sessionId))
  IN  <<sliceLast(pushed, KEPT_INTERACTIONS)>>

getUserInteractions(stored) == IF stored = <<>> THEN <<>> ELSE stored[1]

InteractionTypes == {"recommendation_click", "interest_click", "search", "dismiss"}

\* the first calls are of any type, the ones that follow are searches
TypesAt(n) == IF n < MaxVaried THEN InteractionTypes ELSE {"search"}

InteractionsLeave ==
  <<localStorage, now, tabs, personalization, asked, subscribers, userUid,
    pathfora>>

\* Date.now() is taken to move on by one between two calls
TrackInteraction ==
  \E type \in TypesAt(Len(interactions.tracked)) :
    LET timestamp == Len(interactions.tracked) + 1
        value == trackInteraction(interactions.stored, type, [query |-> go],
                                  timestamp, interactions.sessionId)
    IN  /\ Len(interactions.tracked) < MaxInteractions
        /\ interactions' =
             [stored |-> value,
              sessionId |-> <<getSessionId(interactions.sessionId)>>,
              tracked |-> Append(interactions.tracked,
                                 Interaction(type, [query |-> go], timestamp,
                                             interactions.sessionId))]
        /\ op' = "trackInteraction"
        /\ args' = [type |-> type]
        /\ ret' = <<>>
        /\ UNCHANGED InteractionsLeave

UserInteractions ==
  /\ op' = "getUserInteractions"
  /\ args' = <<>>
  /\ ret' = getUserInteractions(interactions.stored)
  /\ UNCHANGED <<InteractionsLeave, interactions>>

NextInteractions ==
  \/ TrackInteraction
  \/ UserInteractions

SpecInteractions == Init /\ [][NextInteractions]_vars

(* ------------------ two tabs inside trackInterestFromBlog --------------- *)

TabTagArrays == { <<go>>, <<react, go>>, <<Go, goPadded, blank>> }

\* line 78: the tab parses what localStorage.getItem gives it
TabRead ==
  \E tab \in Tabs, blogTags \in TabTagArrays :
    /\ tabs[tab].pc = "idle"
    /\ getUserInterestProfile(localStorage, now).totalBlogViews < MaxViews
    /\ tabs' = [tabs EXCEPT ![tab] =
                  [pc |-> "read", blogTags |-> blogTags,
                   stored |-> localStorage, readAt |-> now]]
    /\ op' = "getItem"
    /\ args' = [tab |-> tab]
    /\ ret' = <<>>
    /\ UNCHANGED <<services, localStorage, now, personalization, asked, subscribers>>

SavesOntoCurrent(call, current) ==
  trackInterestFromBlog(current, call.blogTags, call.readAt)

\* lines 82-116: what the tab hands to setItem comes from what it read
ValueToSave(call, current) ==
  trackInterestFromBlog(call.stored, call.blogTags, call.readAt)

\* line 116: localStorage.setItem replaces the whole value
TabWrite ==
  \E tab \in Tabs :
    /\ tabs[tab].pc = "read"
    /\ localStorage' = ValueToSave(tabs[tab], localStorage)
    /\ tabs' = [tabs EXCEPT ![tab] = IdleTab]
    /\ op' = "setItem"
    /\ args' = [tab |-> tab, call |-> tabs[tab], replaced |-> localStorage]
    /\ ret' = <<>>
    /\ UNCHANGED <<services, now, personalization, asked, subscribers>>

NextTabs ==
  \/ Tick
  \/ TabRead
  \/ TabWrite

SpecTabs == Init /\ [][NextTabs]_vars

(* ------------------------- helpers of the claims ----------------------- *)

Range(seq) == {seq[i] : i \in 1..Len(seq)}

StoredInterests == IF localStorage = <<>> THEN <<>> ELSE localStorage[1].interests

\* whole days since the interest was last updated
Age(interest) == now - interest.lastUpdated

IsTrackCall(o, a) == o = "trackInterestFromBlog" /\ Len(a.blogTags) > 0

CleanTag(tag) == trim(toLowerCase(tag))

CleanTagsOf(blogTags) == {CleanTag(blogTags[k]) : k \in 1..Len(blogTags)} \ {<<>>}

Occurrences(blogTags, cleanTag) ==
  Cardinality({k \in 1..Len(blogTags) : CleanTag(blogTags[k]) = cleanTag})

(* -------------------------------- claims ------------------------------- *)

\* C1: whatever track calls were made, the stored profile holds at most
\* MAX_INTERESTS interests and they are in non-increasing score order.
C1_AtMostTwentySortedByScore ==
  /\ Len(StoredInterests) <= MAX_INTERESTS
  /\ \A i \in 1..(Len(StoredInterests) - 1) :
       StoredInterests[i].score >= StoredInterests[i + 1].score

\* a track call with more than MAX_INTERESTS tags left a full profile whose
\* first score exceeds its last
C1_Witness ==
  /\ IsTrackCall(op, args)
  /\ Len(args.blogTags) > MAX_INTERESTS
  /\ Len(StoredInterests) = MAX_INTERESTS
  /\ StoredInterests[1].score > StoredInterests[MAX_INTERESTS].score

\* C2: a track call with a non-empty tag array persists a profile whose
\* totalBlogViews is one more than before and whose lastActive is now; each
\* cleaned non-blank tag that was in the profile read by the call has its
\* score and viewCount raised by one per occurrence and lastUpdated set to
\* now, each new one enters with score and viewCount one per occurrence, and
\* the other interests are left as they were.
C2_TrackUpdatesProfile ==
  [][IsTrackCall(op', args') =>
       LET before   == getUserInterestProfile(localStorage, now)
           after    == localStorage'[1]
           blogTags == args'.blogTags
           old(c)   == {x \in Range(before.interests) : x.tag = c}
           new(c)   == {x \in Range(after.interests) : x.tag = c}
           added    == {c \in CleanTagsOf(blogTags) : old(c) = {}}
       IN  /\ localStorage' # <<>>
           /\ after.totalBlogViews =
                (IF localStorage = <<>> THEN 0
                 ELSE localStorage[1].totalBlogViews) + 1
           /\ after.lastActive = now
           /\ Len(after.interests) =
                Min(MAX_INTERESTS, Len(before.interests) + Cardinality(added))
           /\ \A c \in CleanTagsOf(blogTags) :
                /\ Cardinality(new(c)) <= 1
                /\ Len(before.interests) + Cardinality(added) <= MAX_INTERESTS
                     => new(c) # {}
                /\ \A x \in new(c) :
                     /\ x.lastUpdated = now
                     /\ \A o \in old(c) :
                          /\ x.score = o.score + Occurrences(blogTags, c)
                          /\ x.viewCount = o.viewCount + Occurrences(blogTags, c)
                     /\ old(c) = {} =>
                          /\ x.score = Occurrences(blogTags, c)
                          /\ x.viewCount = Occurrences(blogTags, c)
           /\ \A x \in Range(after.interests) :
                x.tag \notin CleanTagsOf(blogTags) => x \in Range(before.interests)
     ]_vars

\* a track call raised an interest that was there and created one that was not
C2_Witness ==
  /\ IsTrackCall(op, args)
  /\ args.blogTags = <<react, go>>
  /\ \E x \in Range(StoredInterests) :
       x.tag = go /\ x.score = 3 /\ x.viewCount = 3 /\ x.lastUpdated = now
  /\ \E x \in Range(StoredInterests) :
       x.tag = react /\ x.score = 1 /\ x.viewCount = 1

\* C3 as stated: read returns the stored interests in stored order, and drops
\* an interest if and only if it is more than INTEREST_DECAY_DAYS old
C3_KeepsThirtyDaysOld ==
  op = "getUserInterestProfile" =>
    /\ ret.interests = SelectSeq(StoredInterests, LAMBDA x : x \in Range(ret.interests))
    /\ \A x \in Range(StoredInterests) :
         x \notin Range(ret.interests) <=> Age(x) > INTEREST_DECAY_DAYS

\* C3, amended: read returns the stored interests in stored order, and drops
\* an interest if and only if it is INTEREST_DECAY_DAYS old or older
C3_DropsThirtyDaysOld ==
  op = "getUserInterestProfile" =>
    /\ ret.interests = SelectSeq(StoredInterests, LAMBDA x : x \in Range(ret.interests))
    /\ \A x \in Range(StoredInterests) :
         x \notin Range(ret.interests) <=> Age(x) >= INTEREST_DECAY_DAYS

\* read dropped an interest exactly INTEREST_DECAY_DAYS old and kept a younger one
C3_Witness ==
  /\ op = "getUserInterestProfile"
  /\ \E x \in Range(StoredInterests) :
       Age(x) = INTEREST_DECAY_DAYS /\ x \notin Range(ret.interests)
  /\ \E x \in Range(StoredInterests) :
       Age(x) > 0 /\ Age(x) < INTEREST_DECAY_DAYS /\ x \in Range(ret.interests)

\* the user's top interest list, as the claims describe it: the first up to
\* TOP_INTERESTS_LIMIT tags of the profile read now
TopList ==
  LET interests == getUserInterestProfile(localStorage, now).interests
  IN  [j \in 1..Min(Len(interests), TOP_INTERESTS_LIMIT) |-> interests[j].tag]

\* N minus the 0-based index of tag in TopList, 0 when it is not there
RankWeight(tag) ==
  IF \E j \in 1..Len(TopList) : TopList[j] = tag
  THEN Len(TopList) - ((CHOOSE j \in 1..Len(TopList) : TopList[j] = tag) - 1)
  ELSE 0

RECURSIVE SumOfWeights(_, _)
SumOfWeights(weights, n) ==
  IF n = 0 THEN 0 ELSE weights[n] + SumOfWeights(weights, n - 1)

IsExampleProfile ==
  /\ Len(StoredInterests) = 2
  /\ StoredInterests[1].tag = javascript /\ StoredInterests[1].score = 5
  /\ StoredInterests[2].tag = react /\ StoredInterests[2].score = 3
  /\ Len(TopList) = 2

\* C4 as stated: the relevance score is the sum, over the candidate tags that
\* are in the top interest list, of N minus the tag's index; it is 1 for
\* interests [javascript 5, react 3] and candidates [react, css]
C4_SumOverListedTags ==
  op = "calculateBlogRelevanceScore" =>
    /\ ret = SumOfWeights([k \in 1..Len(args.blogTags) |->
                             RankWeight(args.blogTags[k])], Len(args.blogTags))
    /\ IsExampleProfile /\ args.blogTags = <<react, css>> => ret = 1

\* C4, amended: the relevance score is the sum, over the candidate tags whose
\* lower-case form is in the top interest list, of N minus the index of that
\* lower-case form; it is 1 for interests [javascript 5, react 3] and
\* candidates [react, css]
C4_SumOverLowerCasedTags ==
  op = "calculateBlogRelevanceScore" =>
    /\ ret = SumOfWeights([k \in 1..Len(args.blogTags) |->
                             RankWeight(toLowerCase(args.blogTags[k]))],
                          Len(args.blogTags))
    /\ IsExampleProfile /\ args.blogTags = <<react, css>> => ret = 1

\* the documented example was scored
C4_Witness ==
  /\ op = "calculateBlogRelevanceScore"
  /\ IsExampleProfile
  /\ args.blogTags = <<react, css>>
  /\ ret = 1

(* the relevance score of an item under the current profile *)
ScoreOf(item) ==
  calculateBlogRelevanceScore(localStorage, OrElse(item.categories_tags, <<>>), now)

IsRankCall == op = "personalizeContentByInterests"

UserHasInterests == Len(getUserInterestProfile(localStorage, now).interests) > 0

MinScoreOfCall == OrElse(args.options.minScore, DEFAULT_MIN_SCORE)

NoItemMatches ==
  \A k \in 1..Len(args.content) : ScoreOf(args.content[k]) < MinScoreOfCall

FallbackTaken == args.options.requireMatch /\ NoItemMatches

\* C5: with requireMatch set and no maxResults, when the user has interests
\* and no item scores at least minScore, rank returns the input unchanged.
C5_FallbackKeepsInputOrder ==
  (/\ IsRankCall
   /\ args.options.requireMatch
   /\ args.options.maxResults = <<>>
   /\ UserHasInterests
   /\ NoItemMatches) => ret = args.content

\* the fallback was taken on an input that is not in descending score order
C5_Witness ==
  /\ IsRankCall
  /\ args.options.requireMatch
  /\ args.options.maxResults = <<>>
  /\ UserHasInterests
  /\ NoItemMatches
  /\ \E k \in 1..(Len(args.content) - 1) :
       ScoreOf(args.content[k]) < ScoreOf(args.content[k + 1])
  /\ ret = args.content

\* C6: whenever maxResults is given, 0 included, rank returns the first
\* maxResults items of the ranked list, with or without user interests.
C6_TruncatesToMaxResults ==
  IsRankCall /\ args.options.maxResults # <<>> =>
    LET maxResults == args.options.maxResults[1]
        ranked     == personalizeContentByInterests(
                        localStorage, args.content,
                        [args.options EXCEPT !.maxResults = <<>>], now)
    IN  /\ Len(ret) <= maxResults
        /\ ret = SubSeq(ranked, 1, Min(maxResults, Len(ranked)))

\* C7: when the user has interests and the fallback is not taken, no item
\* rank returns has a higher relevance score than an item placed before it.
C7_DescendingScores ==
  IsRankCall /\ UserHasInterests /\ ~FallbackTaken =>
    \A i, j \in 1..Len(ret) : i < j => ScoreOf(ret[i]) >= ScoreOf(ret[j])

\* rank moved a higher-scoring item in front of lower-scoring ones
C7_Witness ==
  /\ IsRankCall /\ UserHasInterests /\ ~FallbackTaken
  /\ Len(ret) = 3
  /\ ret # args.content
  /\ ScoreOf(ret[1]) > ScoreOf(ret[2])
  /\ ScoreOf(ret[2]) > ScoreOf(ret[3])

\* C8: in a call that does not truncate, with requireMatch set and an item
\* scoring at least minScore the result holds exactly the items scoring at
\* least minScore, and with requireMatch unset it holds every input item.
C8_FiltersOnlyWhenRequired ==
  IsRankCall /\ ~IsTruthy(args.options.maxResults) =>
    /\ args.options.requireMatch /\ ~NoItemMatches =>
         /\ Range(ret) = {x \in Range(args.content) : ScoreOf(x) >= MinScoreOfCall}
         /\ Len(ret) = Cardinality(Range(ret))
    /\ ~args.options.requireMatch =>
         /\ Range(ret) = Range(args.content)
         /\ Len(ret) = Len(args.content)

\* an item scoring exactly minScore was kept and a lower one was filtered out
C8_Witness ==
  /\ IsRankCall /\ args.options.maxResults = <<>>
  /\ args.options.requireMatch
  /\ \E x \in Range(ret) : ScoreOf(x) = MinScoreOfCall
  /\ \E x \in Range(args.content) : x \notin Range(ret)

ReaderOps ==
  { "getUserInterestProfile", "getUserTopInterests", "getInterestScore",
    "hasUserInterests", "calculateBlogRelevanceScore",
    "personalizeContentByInterests" }

IsExpired(interest, t) == t - interest.lastUpdated > INTEREST_DECAY_DAYS

\* C9: an interest untouched for more than INTEREST_DECAY_DAYS is in no
\* profile that read returns; it stays in storage through every step that is
\* not a persisting track call or clearUserInterests, and a persisting track
\* call leaves no such interest in storage.
C9_ExpiredStaysUntilTrack ==
  /\ [](op = "getUserInterestProfile" =>
          \A x \in Range(ret.interests) : ~IsExpired(x, now))
  /\ [][/\ \A x \in Range(StoredInterests) :
             IsExpired(x, now) =>
               \/ localStorage' # <<>> /\ x \in Range(localStorage'[1].interests)
               \/ IsTrackCall(op', args')
               \/ op' = "clearUserInterests"
        /\ IsTrackCall(op', args') =>
             \A x \in Range(localStorage'[1].interests) : ~IsExpired(x, now')
       ]_vars

\* read returned a profile without an expired interest that is still stored
C9_Witness ==
  /\ op = "getUserInterestProfile"
  /\ \E x \in Range(StoredInterests) :
       IsExpired(x, now) /\ x \notin Range(ret.interests)

\* C10: no call of a reader (getUserInterestProfile, getUserTopInterests,
\* getInterestScore, hasUserInterests, calculateBlogRelevanceScore, rank)
\* changes the stored profile.
C10_ReadersDoNotWrite ==
  [][op' \in ReaderOps => localStorage' = localStorage]_vars

\* a reader returned fewer interests than storage still holds
C10_Witness ==
  /\ op = "getUserTopInterests"
  /\ args.limit = TOP_INTERESTS_LIMIT
  /\ Len(ret) < Len(StoredInterests)
  /\ Len(StoredInterests) < TOP_INTERESTS_LIMIT

\* C11: whatever the interleaving of two tabs inside track, the value a
\* setItem leaves in storage is the profile its tab computed from what that
\* tab had read, whole; what the other tab wrote in between is lost.
C11_LastWriteWins ==
  op = "setItem" =>
    LET call    == args.call
        profile == getUserInterestProfile(call.stored, call.readAt)
        saved   == localStorage[1]
    IN  /\ localStorage # <<>>
        /\ saved.totalBlogViews = profile.totalBlogViews + 1
        /\ saved.lastActive = call.readAt
        /\ saved.created = profile.created
        /\ saved.interests =
             slice0(SortByScoreDesc(ProcessTags(profile.interests,
                                                call.blogTags, call.readAt)),
                    MAX_INTERESTS)

\* a tab overwrote what the other tab had saved since it read: both tracked
\* go on an empty store and go is left with score 1
C11_Witness ==
  /\ op = "setItem"
  /\ args.call.stored = <<>>
  /\ args.replaced # <<>>
  /\ \E x \in Range(args.replaced[1].interests) : x.tag = go /\ x.score = 1
  /\ args.replaced[1].totalBlogViews = 1
  /\ \E x \in Range(StoredInterests) : x.tag = go /\ x.score = 1
  /\ localStorage[1].totalBlogViews = 1

\* C12 as stated: after n track([t]) calls on an empty store, all made
\* within INTEREST_DECAY_DAYS, the profile holds one interest, with tag t,
\* score n and viewCount n
C12_OneInterestTaggedT ==
  (/\ IsTrackCall(op, args)
   /\ Len(args.blogTags) = 1
   /\ localStorage[1].lastActive - localStorage[1].created <= INTEREST_DECAY_DAYS)
  => LET n == localStorage[1].totalBlogViews
     IN  /\ Len(StoredInterests) = 1
         /\ StoredInterests[1].tag = args.blogTags[1]
         /\ StoredInterests[1].score = n
         /\ StoredInterests[1].viewCount = n

\* C12, amended: after n track([t]) calls on an empty store, t not blank,
\* all made within a span of less than INTEREST_DECAY_DAYS, the profile
\* holds one interest, with tag t lower-cased and trimmed, score n and
\* viewCount n
C12_OneInterestTaggedCleanT ==
  (/\ IsTrackCall(op, args)
   /\ Len(args.blogTags) = 1
   /\ CleanTag(args.blogTags[1]) # <<>>
   /\ localStorage[1].lastActive - localStorage[1].created < INTEREST_DECAY_DAYS)
  => LET n == localStorage[1].totalBlogViews
     IN  /\ Len(StoredInterests) = 1
         /\ StoredInterests[1].tag = CleanTag(args.blogTags[1])
         /\ StoredInterests[1].score = n
         /\ StoredInterests[1].viewCount = n

\* the documented example: 25 track(["go"]) calls in less than 30 days
C12_Witness ==
  /\ IsTrackCall(op, args) /\ args.blogTags = <<go>>
  /\ localStorage[1].totalBlogViews = 25
  /\ localStorage[1].lastActive - localStorage[1].created = 15
  /\ StoredInterests = <<[tag |-> go, score |-> 25, viewCount |-> 25,
                          lastUpdated |-> now]>>

\* C13: the relevance score is 0 when the profile read has no interests,
\* and when no candidate tag, lower-cased, is in the top interest list.
C13_ZeroWithoutOverlap ==
  op = "calculateBlogRelevanceScore" =>
    /\ Len(getUserInterestProfile(localStorage, now).interests) = 0 => ret = 0
    /\ (\A k \in 1..Len(args.blogTags) :
          toLowerCase(args.blogTags[k]) \notin Range(TopList)) => ret = 0

\* candidates were scored 0 against a profile that holds other tags only
C13_Witness ==
  /\ op = "calculateBlogRelevanceScore"
  /\ args.blogTags = <<react, css>>
  /\ Len(TopList) = 1
  /\ TopList[1] = go
  /\ ret = 0

\* the interest list of the profile handed to setItem, before it is sorted
\* and cut: what the call read, raised or extended by the tags of the call
BeforeCut(ls, blogTags, t) ==
  ProcessTags(getUserInterestProfile(ls, t).interests, blogTags, t)

\* C15: when a track call cuts the list to MAX_INTERESTS, no interest it
\* drops has a higher score than an interest it keeps.
C15_EvictsLeastScored ==
  [][IsTrackCall(op', args') =>
       LET all     == BeforeCut(localStorage, args'.blogTags, now)
           kept    == Range(localStorage'[1].interests)
           evicted == Range(all) \ kept
       IN  /\ kept \subseteq Range(all)
           /\ Len(all) > MAX_INTERESTS =>
                Cardinality(evicted) = Len(all) - MAX_INTERESTS
           /\ \A e \in evicted, k \in kept : e.score <= k.score
     ]_vars

\* a track call on a full profile of one-letter tags kept the two tags it
\* created, which outscore them, and dropped two one-letter tags
C15_Witness ==
  /\ IsTrackCall(op, args)
  /\ args.blogTags = ExampleTags
  /\ Len(StoredInterests) = MAX_INTERESTS
  /\ StoredInterests[1].tag = javascript
  /\ StoredInterests[2].tag = react
  /\ \A x \in Range(StoredInterests) : x.tag # BulkTags[MAX_INTERESTS]

IsScoreCall(o) == o = "calculateBlogRelevanceScore"

IsUnusable(ls) ==
  \/ ls = <<>>
  \/ "raw" \in DOMAIN ls[1]
  \/ "interests" \notin DOMAIN ls[1]

\* C16: when the stored profile is missing, cannot be parsed or has no
\* interests list, read returns an empty profile: no interests and
\* totalBlogViews 0.
C16_UnusableStorageReadsEmpty ==
  op = "getUserInterestProfile" /\ IsUnusable(localStorage) =>
    /\ DOMAIN ret = {"interests", "totalBlogViews", "lastActive", "created"}
    /\ ret.interests = <<>>
    /\ ret.totalBlogViews = 0

\* read returned an empty profile for a stored object that has a view count
\* and no interests list
C16_Witness ==
  /\ op = "getUserInterestProfile"
  /\ localStorage = <<NoInterestsList>>
  /\ ret.interests = <<>>
  /\ ret.totalBlogViews = 0

\* C17: when setItem fails during track, the call returns without raising,
\* has called setItem once, and storage holds what it held before the call.
C17_FailedSaveLeavesStorage ==
  (/\ op = "trackInterestFromBlog"
   /\ Len(args.blogTags) > 0
   /\ args.quotaExceeded) =>
    /\ ~ret.raised
    /\ ret.setItemCalls = 1
    /\ localStorage = args.before

\* a save failed on a stored profile that the call would have changed
C17_Witness ==
  /\ op = "trackInterestFromBlog"
  /\ args.blogTags = <<react, go>>
  /\ args.quotaExceeded
  /\ ~ret.raised
  /\ localStorage = args.before
  /\ ~IsUnusable(localStorage)
  /\ localStorage[1].totalBlogViews = 1

HasEmail(body) == body.kind = "object" /\ body.email # <<>>

\* the body carries an e-mail address: a string that matches the pattern
IsValidEmail(body) ==
  /\ HasEmail(body)
  /\ body.email[1].type = "string"
  /\ MatchesEmailPattern(body.email[1].chars)

IsPresent(body) == body.email[1].chars \in subscribers

\* C18: the endpoint validates, then queries the CMS, then logs: a missing
\* or malformed email gets 400 without a CMS query, a valid email present in
\* the CMS gets 200 'Email already subscribed', a valid email not present
\* gets 201, and a failure while handling the request gets 500.
C18_ValidateThenCheckThenLog ==
  op = "POST" =>
    /\ ret.steps \in {<<>>, <<"validate">>, <<"validate", "query">>,
                      <<"validate", "query", "log">>}
    /\ (args.body.kind = "object" /\ ~IsValidEmail(args.body)) =>
         (ret.status = 400 /\ ret.steps = <<"validate">>)
    /\ (IsValidEmail(args.body) /\ ~args.cmsThrows /\ IsPresent(args.body)) =>
         (ret.status = 200 /\ ret.text = "Email already subscribed")
    /\ (IsValidEmail(args.body) /\ ~args.cmsThrows /\ ~IsPresent(args.body)) =>
         ret.status = 201
    /\ (args.body.kind # "object" \/ (IsValidEmail(args.body) /\ args.cmsThrows))
         => ret.status = 500

\* C19: once dismissPersonalizationBanner has run, and until
\* clearPersonalizationData is called, shouldShowPersonalizationBanner
\* returns false, whatever calls and time came in between.
C19_DismissedUntilCleared ==
  (asked.dismissed /\ op = "shouldShowPersonalizationBanner") => ret = FALSE

\* the key personalization_email is absent
NoEmailStored == personalization.email = <<>>

NotDismissed == personalization.dismissed # <<"true">>

\* C20: after setPersonalizationMaybeLater or the banner's Maybe Later, with
\* no email stored and the banner not dismissed,
\* shouldShowPersonalizationBanner is false while fewer than 7 days have
\* elapsed and true once 7 days have passed.
C20_HiddenForSevenDays ==
  (/\ op = "shouldShowPersonalizationBanner"
   /\ asked.maybeLaterAt # <<>>
   /\ NoEmailStored
   /\ NotDismissed) =>
    ret = (args.at - asked.maybeLaterAt[1] >= MAYBE_LATER_DAYS)

\* the banner shows again on the seventh day after Maybe Later
C20_Witness ==
  /\ op = "shouldShowPersonalizationBanner"
  /\ asked.maybeLaterAt = <<3>>
  /\ args.at = 10
  /\ NoEmailStored
  /\ NotDismissed
  /\ ret = TRUE

IsHybridView(o) == o = "HybridPersonalizationManager.trackBlogView"

\* C21: a trackBlogView of the hybrid manager with at least one tag updates
\* the interest profile by one trackInterestFromBlog call, as its last step,
\* whatever the Contentstack and Lytics tracking did.
C21_LocalTrackingAlwaysRuns ==
  (IsHybridView(op) /\ Len(args.tags) > 0) =>
    /\ ~ret.raised
    /\ ret.trackCalls = 1
    /\ ret.steps[Len(ret.steps)] = "local"
    /\ localStorage = trackInterestFromBlog(args.before, args.tags, args.at)

\* both remote trackings failed and the second view of the visitor was
\* recorded all the same
C21_Witness ==
  /\ IsHybridView(op)
  /\ args.contentstack = "rejects"
  /\ args.lytics = "throws"
  /\ args.tags = <<react, go>>
  /\ ret.steps = <<"contentstack", "lytics", "local">>
  /\ localStorage # args.before
  /\ localStorage[1].totalBlogViews = 2

\* C22: getTotalBlogViews returns the totalBlogViews of the profile that
\* trackInterestFromBlog persisted, and 0 when nothing usable is stored.
C22_ReturnsPersistedViews ==
  op = "getTotalBlogViews" =>
    ret = IF localStorage = <<>> THEN 0
          ELSE IF ParseThrows(localStorage[1]) THEN 0
          ELSE localStorage[1].totalBlogViews

\* tracking the blog_view event failed: no user UID, a network error or a
\* response that is not OK
EventFailed(a) == a.userUid = <<>> \/ a.event \in {"networkError", "notOk"}

\* C23: PersonalizationAPI.trackBlogView returns true even when tracking the
\* blog_view event failed.
C23_TrueWhenEventFails ==
  (op = "PersonalizationAPI.trackBlogView" /\ EventFailed(args)) =>
    ret.result = TRUE

\* C24: the exit-intent widget is created at most once per page load,
\* whatever events occur after it was dismissed.
C24_ExitWidgetAtMostOnce == pathfora.created <= 1

StoredInteractions == getUserInteractions(interactions.stored)

\* C25: the stored user_interactions list holds at most KEPT_INTERACTIONS
\* entries, and they are the interactions tracked last, in the order they were
\* tracked.
C25_LastHundredInOrder ==
  LET n    == Len(interactions.tracked)
      kept == Min(n, KEPT_INTERACTIONS)
  IN  /\ Len(StoredInteractions) = kept
      /\ kept <= KEPT_INTERACTIONS
      /\ \A i \in 1..kept :
           StoredInteractions[i] = interactions.tracked[n - kept + i]

\* two interactions more than are kept were tracked: the two made first, a
\* dismiss among them, are gone and the third is now the oldest
C25_Witness ==
  /\ op = "trackInteraction"
  /\ Len(interactions.tracked) = KEPT_INTERACTIONS + 2
  /\ interactions.tracked[1].type = "dismiss"
  /\ Len(StoredInteractions) = KEPT_INTERACTIONS
  /\ StoredInteractions[1].timestamp = 3
  /\ StoredInteractions[KEPT_INTERACTIONS].timestamp = KEPT_INTERACTIONS + 2

UpperCaseLetters == {UpperAlphabet[i] : i \in 1..26}

\* C26: in the stored profile every interest's tag is non-empty, has no
\* upper-case letter and no whitespace at either end, and no two interests
\* have the same tag.
C26_TagsCleanAndDistinct ==
  \A i \in 1..Len(StoredInterests) :
    LET tag == StoredInterests[i].tag
    IN  /\ Len(tag) > 0
        /\ \A k \in 1..Len(tag) : tag[k] \notin UpperCaseLetters
        /\ ~IsWhiteSpace(tag[1])
        /\ ~IsWhiteSpace(tag[Len(tag)])
        /\ \A j \in 1..Len(StoredInterests) :
             StoredInterests[j].tag = tag => j = i

\* an article tagged 'Go', ' go ' and ' ' was tracked after one tagged react
\* and go: the profile holds go once, counted three times, and react
C26_Witness ==
  /\ IsTrackCall(op, args)
  /\ args.blogTags = <<Go, goPadded, blank>>
  /\ Len(StoredInterests) = 2
  /\ StoredInterests[1] = [tag |-> go, score |-> 3, viewCount |-> 3,
                           lastUpdated |-> now]
  /\ StoredInterests[2].tag = react

TagsOf(interests) == {interests[i].tag : i \in 1..Len(interests)}

\* the interests a track call made now would read: the stored ones that
\* have not expired
ReadNow == getUserInterestProfile(localStorage, now).interests

\* the stored profile holds MAX_INTERESTS interests, none of them expired
IsFullNow ==
  Len(StoredInterests) = MAX_INTERESTS /\ Len(ReadNow) = MAX_INTERESTS

\* the clean tags of the call that are not in the profile it reads
NewTagsOf(blogTags) == CleanTagsOf(blogTags) \ TagsOf(ReadNow)

\* C27 as stated: a track call on a full profile in which a tag not yet in
\* the profile occurs once leaves the set of stored tags unchanged
C27_OnceNewTagLeavesTagsUnchanged ==
  [][(/\ IsTrackCall(op', args')
      /\ IsFullNow
      /\ \E c \in NewTagsOf(args'.blogTags) : Occurrences(args'.blogTags, c) = 1)
     => TagsOf(localStorage'[1].interests) = TagsOf(StoredInterests)]_vars

\* C27, amended: a track call on a full profile does not add a tag that is
\* not yet in the profile and occurs once in the call, and it leaves the set
\* of stored tags unchanged if every tag of the call that is not yet in the
\* profile occurs once
C27_OnceNewTagIsNotAdded ==
  [][(IsTrackCall(op', args') /\ IsFullNow) =>
       LET new == NewTagsOf(args'.blogTags)
           once == {c \in new : Occurrences(args'.blogTags, c) = 1}
       IN  /\ once \cap TagsOf(localStorage'[1].interests) = {}
           /\ once = new =>
                TagsOf(localStorage'[1].interests) = TagsOf(StoredInterests)
     ]_vars

\* css was tracked once on a full profile of one-letter tags and is not stored
C27_Witness ==
  /\ IsTrackCall(op, args)
  /\ args.blogTags = <<css>>
  /\ Len(StoredInterests) = MAX_INTERESTS
  /\ css \notin TagsOf(StoredInterests)
  /\ localStorage[1].totalBlogViews = 2
  /\ localStorage[1].lastActive = localStorage[1].created

HasNonBlankTag(blogTags) == CleanTagsOf(blogTags) # {}

\* C28: right after a track call has persisted, if the profile holds at most
\* TOP_INTERESTS_LIMIT interests and the tags have a non-blank entry, the
\* relevance score of the same tags is at least 1.
C28_TrackedTagsScore ==
  (/\ op = "calculateBlogRelevanceScore"
   /\ Len(StoredInterests) <= TOP_INTERESTS_LIMIT
   /\ HasNonBlankTag(args.blogTags)) => ret >= 1

====
